---- MODULE Spec2Model ----
(***************************************************************************)
(* Model of the property scraper:                                          *)
(*   scraper/models.py   PropertyListing, PropertyImage                    *)
(*   scraper/scraper.py  save_property_to_db_simple,                       *)
(*                       scrape_complete_property_details,                 *)
(*                       scrape_properties_from_detail_pages,              *)
(*                       extract_price_numeric,                            *)
(*                       extract_bedrooms_bathrooms_from_elements,         *)
(*                       extract_bedrooms_bathrooms                        *)
(*   scraper/tasks.py    scrape_properties_task (two workers)              *)
(*                                                                         *)
(* Encodings.  Python None is the empty tuple <<>> and a present optional  *)
(* value v is <<v>>.  A URL is a tuple of text pieces, so that             *)
(* str.startswith("http") and re.search(r'/properties/(\d+)') are computed *)
(* on the pieces.  A float is an integer number of thousandths; a stored   *)
(* DecimalField(decimal_places=2) keeps a multiple of ten thousandths.     *)
(* A date is a day number.  Time is the logical clock `now`.               *)
(* A page text is a sequence of lines of words, a price text a sequence    *)
(* of characters, and the float parsed from a price text is kept exactly.  *)
(***************************************************************************)
EXTENDS Integers, Sequences, FiniteSets, TLC

\* ---------------------------------------------------------------- bounds
MaxClock == 3
MaxImgLen == 2
MaxUrls == 2

\* ------------------------------------------------------------- encodings
None == <<>>
Some(v) == <<v>>

\* ------------------------------------------------------------ input data
ImgA == <<"http", "s://media/a.jpg">>
ImgB == <<"http", "s://media/b.jpg">>
ImgC == <<"http", "s://media/c.jpg">>
ImgEmpty == <<>>
ImgRel == <<"/img/", "rel.jpg">>

U1 == <<"https://site", "/properties/", "1">>
U1x == <<"https://site", "/properties/", "1", "#/?channel=RES_BUY">>
N1 == <<"https://site", "/find.html">>
N2 == <<"https://site", "/properties/", "new-homes">>
NoUrl == <<>>

\* the URLs in which re.search(r'/properties/(\d+)', url) finds nothing
NoIdURLs == {N1, N2}

ListingURLs == {U1, U1x, N1}
DigitRuns == {"1", "2"}

\* the scalar and collection fields of one extraction, without the keys
\* listing_url, external_id and image_urls
PayEmpty ==
  [title |-> "", price |-> "", price_numeric |-> None, property_type |-> "",
   bedrooms |-> None, bathrooms |-> None, size |-> "", description |-> "",
   key_features |-> <<>>, date_added |-> None]
PayA ==
  [title |-> "2 bedroom flat, High Street", price |-> "GBP250,000",
   price_numeric |-> Some(250000000), property_type |-> "Flat",
   bedrooms |-> Some(2), bathrooms |-> Some(1), size |-> "700 sq ft",
   description |-> "A refurbished flat", key_features |-> <<"Balcony">>,
   date_added |-> Some(19727)]
PayB ==
  [title |-> "Studio house, Mill Lane", price |-> "GBP1,200 pcm 0.127 acre",
   price_numeric |-> Some(12000127), property_type |-> "House",
   bedrooms |-> Some(0), bathrooms |-> Some(3), size |-> "55 sq m",
   description |-> "A detached house", key_features |-> <<"Garden", "Garage">>,
   date_added |-> Some(19800)]
Payloads == {PayEmpty, PayA, PayB}

RECURSIVE SeqsUpTo(_, _)
SeqsUpTo(S, n) ==
  IF n = 0 THEN {<<>>}
  ELSE LET shorter == SeqsUpTo(S, n - 1)
       IN shorter \cup {Append(s, x) : s \in {q \in shorter : Len(q) = n - 1}, x \in S}

\* image lists handed to the persistence operation by the callers of Spec
ImageSeqs == SeqsUpTo({ImgA}, MaxImgLen)

\* image lists of SpecImages: every list of absolute and relative URLs up to
\* MaxImgLen, the list [A, B, A, C] and a list with an empty entry
ExampleSeqs == {<<ImgA, ImgB, ImgA, ImgC>>, <<ImgEmpty, ImgA>>}
LongImageSeqs == SeqsUpTo({ImgA, ImgB, ImgRel}, MaxImgLen) \cup ExampleSeqs

\* the lists of listing URLs scrape_property_urls_from_search can return:
\* `property_url not in property_urls` keeps them free of repeats
UrlLists == {s \in SeqsUpTo(ListingURLs, MaxUrls) :
               \A i, j \in 1..Len(s) : i # j => s[i] # s[j]}

\* ------------------------------------------------------- pure functions
\* str.startswith("http")
StartsWithHttp(u) == Len(u) >= 1 /\ u[1] = "http"

\* re.search(r'/properties/(\d+)', property_url): first match, else ''
ExternalIdOf(url) ==
  LET hits == {i \in 1..(Len(url) - 1) :
                 url[i] = "/properties/" /\ url[i + 1] \in DigitRuns}
  IN IF hits = {} THEN ""
     ELSE url[(CHOOSE i \in hits : \A j \in hits : i <= j) + 1]

\* the property_data dictionary built by scrape_complete_property_details
BuildRecord(url, pay, imgs) ==
  [external_id |-> ExternalIdOf(url), title |-> pay.title, price |-> pay.price,
   price_numeric |-> pay.price_numeric, property_type |-> pay.property_type,
   bedrooms |-> pay.bedrooms, bathrooms |-> pay.bathrooms, size |-> pay.size,
   description |-> pay.description, key_features |-> pay.key_features,
   date_added |-> pay.date_added, image_urls |-> imgs, listing_url |-> url]

\* dict.pop("image_urls", []): the value removed and the dictionary left
PoppedImages(r) == IF "image_urls" \in DOMAIN r THEN r.image_urls ELSE <<>>
Pop(r) == [f \in DOMAIN r \ {"image_urls"} |-> r[f]]

\* ---------------------------------------------------------- the storage
\* DecimalField(max_digits=12, decimal_places=2): a float is rounded to
\* hundredths when it is written (ties to even)
Quantize(m) ==
  LET q == m \div 10
      d == m % 10
  IN IF d < 5 THEN q * 10
     ELSE IF d > 5 THEN (q + 1) * 10
     ELSE IF q % 2 = 0 THEN q * 10 ELSE (q + 1) * 10

\* the value a column holds after value v was written to field f
ToColumn(f, v) ==
  IF f = "price_numeric" /\ v # None THEN Some(Quantize(v[1])) ELSE v

\* the columns of PropertyListing that a defaults dictionary can set
DataColumns ==
  {"external_id", "listing_url", "title", "price", "price_numeric",
   "property_type", "bedrooms", "bathrooms", "size", "description",
   "key_features", "date_added"}

\* unique=True on external_id and on listing_url
UniqueViolation(others, row) ==
  \E l \in others : l.listing_url = row.listing_url \/ l.external_id = row.external_id

\* a column the dictionary does not name takes its model default
FieldOr(d, f, dflt) == IF f \in DOMAIN d THEN d[f] ELSE dflt

\* PropertyListing.objects.create(**params): scraped_at (auto_now) and
\* last_updated (auto_now_add) are both set, scraping_status takes its default
NewRow(ls, d, t) ==
  [id |-> Cardinality(ls) + 1,
   external_id |-> d.external_id, listing_url |-> d.listing_url,
   title |-> d.title, price |-> d.price,
   price_numeric |-> ToColumn("price_numeric", d.price_numeric),
   property_type |-> d.property_type, bedrooms |-> d.bedrooms,
   bathrooms |-> d.bathrooms, size |-> d.size,
   description |-> FieldOr(d, "description", ""),
   key_features |-> FieldOr(d, "key_features", <<>>),
   date_added |-> d.date_added,
   scraped_at |-> t, last_updated |-> t,
   scraping_status |-> "pending", scraping_error |-> ""]

\* (mutant) a merge: a field keeps its old value when the new one is empty
UpdatedRowMerge(l, d, t) ==
  [f \in DOMAIN l |->
     IF f \in DOMAIN d /\ f \in DataColumns
     THEN IF (f \in {"title", "price", "property_type", "size", "description"}
                /\ d[f] = "")
             \/ (f \in {"price_numeric", "bedrooms", "bathrooms", "key_features",
                        "date_added"} /\ d[f] = <<>>)
          THEN l[f]
          ELSE ToColumn(f, d[f])
     ELSE IF f = "scraped_at" THEN t
     ELSE l[f]]

\* (mutant) the save refreshes the auto_now_add column too
UpdatedRowRefreshAll(l, d, t) ==
  [f \in DOMAIN l |->
     IF f \in DOMAIN d /\ f \in DataColumns THEN ToColumn(f, d[f])
     ELSE IF f \in {"scraped_at", "last_updated"} THEN t
     ELSE l[f]]

\* setattr(obj, k, v) for every key of defaults, then obj.save(): only
\* scraped_at (auto_now) is refreshed besides the keys of defaults
UpdatedRow(l, d, t) ==
  [f \in DOMAIN l |->
     IF f \in DOMAIN d /\ f \in DataColumns THEN ToColumn(f, d[f])
     ELSE IF f = "scraped_at" THEN t
     ELSE l[f]]

\* PropertyListing.objects.update_or_create(listing_url=..., defaults=d)
update_or_create(ls, d, t) ==
  LET found == {l \in ls : l.listing_url = d.listing_url}
  IN IF found = {}
     THEN LET row == NewRow(ls, d, t)
          IN IF UniqueViolation(ls, row)
             THEN [ok |-> FALSE, created |-> FALSE, listings |-> ls, id |-> 0]
             ELSE [ok |-> TRUE, created |-> TRUE,
                   listings |-> ls \cup {row}, id |-> row.id]
     ELSE LET l == CHOOSE x \in found : TRUE
              row == UpdatedRow(l, d, t)
          IN IF UniqueViolation(ls \ {l}, row)
             THEN [ok |-> FALSE, created |-> FALSE, listings |-> ls, id |-> 0]
             ELSE [ok |-> TRUE, created |-> FALSE,
                   listings |-> (ls \ {l}) \cup {row}, id |-> l.id]

\* (mutant) the old images are not cleared
DeleteImagesKeep(imgs, id) == imgs

\* obj.images.all().delete()
DeleteImages(imgs, id) == {m \in imgs : m.property # id}

\* the loop `for i, image_url in enumerate(image_urls)`, from the 1-based
\* position i (enumerate index i - 1); unique_together (property, image_url)
\* makes PropertyImage.objects.create raise on a repeated URL; scraped_at is
\* auto_now_add
RECURSIVE InsertImages(_, _, _, _, _)
InsertImages(imgs, id, urls, i, t) ==
  IF i > Len(urls) THEN [ok |-> TRUE, images |-> imgs]
  ELSE LET u == urls[i]
       IN IF u # <<>> /\ StartsWithHttp(u)
          THEN IF \E m \in imgs : m.property = id /\ m.image_url = u
               THEN [ok |-> FALSE, images |-> imgs]
               ELSE InsertImages(
                      imgs \cup {[property |-> id, image_url |-> u,
                                  image_order |-> i - 1,
                                  is_primary |-> (i - 1 = 0),
                                  image_title |-> i, scraped_at |-> t]},
                      id, urls, i + 1, t)
          ELSE InsertImages(imgs, id, urls, i + 1, t)

\* the body of `with transaction.atomic():` run on the storage (ls, imgs);
\* on an exception the storage returned is the one the body had reached
SaveBody(ls, imgs, r, t) ==
  LET image_urls == PoppedImages(r)
      uoc == update_or_create(ls, Pop(r), t)
  IN IF ~uoc.ok
     THEN [ok |-> FALSE, created |-> FALSE, listings |-> ls, images |-> imgs]
     ELSE IF image_urls # <<>>
          THEN LET ins == InsertImages(DeleteImages(imgs, uoc.id), uoc.id, image_urls, 1, t)
               IN [ok |-> ins.ok, created |-> uoc.created,
                   listings |-> uoc.listings, images |-> ins.images]
          ELSE [ok |-> TRUE, created |-> uoc.created,
                listings |-> uoc.listings, images |-> imgs]

\* (mutant) no transaction: what the body wrote before it raised stays
AtomicNoRollback(ls, imgs, body) ==
  [listings |-> body.listings, images |-> body.images]

\* transaction.atomic(): commit when the body returns, roll back when it raises
Atomic(ls, imgs, body) ==
  IF body.ok THEN [listings |-> body.listings, images |-> body.images]
  ELSE [listings |-> ls, images |-> imgs]

\* what save_property_to_db_simple(r) does to the storage and returns:
\* `return created` after the commit, `return False` from the except clause
\* and from the missing-URL check
SaveOutcome(ls, imgs, r, t) ==
  IF r.listing_url = <<>>
  THEN [outcome |-> "nourl", ret |-> "False", listings |-> ls, images |-> imgs,
        record |-> r]
  ELSE LET body == SaveBody(ls, imgs, r, t)
           db == Atomic(ls, imgs, body)
       IN [outcome |-> IF ~body.ok THEN "failed"
                       ELSE IF body.created THEN "created" ELSE "updated",
           ret |-> IF body.ok /\ body.created THEN "True" ELSE "False",
           listings |-> db.listings, images |-> db.images,
           record |-> Pop(r)]

\* ---------------------------------------------------------------- state
VARIABLES
  listings,       \* rows of PropertyListing
  images,         \* rows of PropertyImage
  now,            \* the clock read by auto_now / auto_now_add
  property_data,  \* the dictionary the caller holds (None: no dictionary)
  last,           \* the most recent call of save_property_to_db_simple
  pc,             \* position of scrape_properties_from_detail_pages
  property_urls,  \* the URLs returned by scrape_property_urls_from_search
  idx,            \* number of URLs the detail loop has processed
  new_count,
  update_count,
  visit,          \* the most recent iteration of the detail loop
  tx,             \* per worker: its call of save_property_to_db_simple
  lock,           \* the worker whose open transaction wrote the listing, or 0
  commits,        \* the workers in the order in which they committed
  page,           \* the document an extraction reads
  extracted,      \* what the extraction returned (None: not run)
  price_str,      \* the text given to extract_price_numeric
  price_val,      \* what extract_price_numeric returned for it
  task,           \* the run of scrape_properties_task: position and locals
  drivers         \* the browser sessions that are open

vars == <<listings, images, now, property_data, last,
          pc, property_urls, idx, new_count, update_count, visit,
          tx, lock, commits, page, extracted, price_str, price_val,
          task, drivers>>
crawlVars == <<pc, property_urls, idx, new_count, update_count, visit>>
storeVars == <<listings, images, now, property_data, last>>
concVars == <<tx, lock, commits>>
extractVars == <<page, extracted, price_str, price_val>>
taskVars == <<task, drivers>>

Workers == {1, 2}
NoTx == [pc |-> "idle", rec |-> None, at |-> 0, id |-> 0, created |-> FALSE,
         listings |-> {}, images |-> {}]
NoPage == <<>>
NoPriceCall == [calls |-> 0, text |-> <<>>, ret |-> None]

NoTask == [pc |-> "idle", max_pages |-> 0, limit |-> 0, site |-> 0, page |-> 0,
           read |-> 0, urls |-> 0, left |-> 0, opened |-> 0, raised |-> FALSE]

NoCall == [at |-> 0, arg |-> None, outcome |-> "none", ret |-> "False",
           repeat |-> FALSE]
NoVisit == [url |-> NoUrl, loaded |-> FALSE, saved |-> FALSE,
            outcome |-> "none", counted |-> "none"]

InitStore ==
  /\ listings = {}
  /\ images = {}
  /\ now = 0
  /\ property_data = None
  /\ last = NoCall
  /\ pc = "idle"
  /\ property_urls = <<>>
  /\ idx = 0
  /\ new_count = 0
  /\ update_count = 0
  /\ visit = NoVisit

InitConc ==
  /\ tx = [w \in Workers |-> NoTx]
  /\ lock = 0
  /\ commits = <<>>
  /\ task = NoTask
  /\ drivers = {}

InitExtract ==
  /\ page = NoPage
  /\ extracted = None
  /\ price_str = <<>>
  /\ price_val = NoPriceCall

Init == InitStore /\ InitConc /\ InitExtract

\* save_property_to_db_simple(r) at clock reading t; `fresh` tells whether r
\* is a dictionary just built (TRUE) or the one the caller passed before
save_property_to_db_simple(r, fresh, t) ==
  LET res == SaveOutcome(listings, images, r, t)
  IN /\ listings' = res.listings
     /\ images' = res.images
     /\ property_data' = Some(res.record)
     /\ last' = [at |-> t, arg |-> Some(r), outcome |-> res.outcome,
                 ret |-> res.ret, repeat |-> (~fresh \/ last.arg = Some(r))]

\* a direct caller (test_scraper.py) saves a dictionary it just built
SaveNew ==
  /\ pc # "detail"
  /\ now < MaxClock
  /\ \E url \in ListingURLs \cup {NoUrl}, pay \in Payloads, imgs \in ImageSeqs :
       save_property_to_db_simple(BuildRecord(url, pay, imgs), TRUE, now + 1)
  /\ now' = now + 1
  /\ UNCHANGED <<crawlVars, taskVars, concVars, extractVars>>

\* a direct caller passes the dictionary it already passed once
SaveAgain ==
  /\ pc # "detail"
  /\ now < MaxClock
  /\ property_data # None
  /\ save_property_to_db_simple(property_data[1], FALSE, now + 1)
  /\ now' = now + 1
  /\ UNCHANGED <<crawlVars, taskVars, concVars, extractVars>>

\* a direct caller saves a dictionary whose image list is any list
SaveImages ==
  /\ pc # "detail"
  /\ now < MaxClock
  /\ \E url \in {U1, N1}, imgs \in LongImageSeqs :
       save_property_to_db_simple(BuildRecord(url, PayA, imgs), TRUE, now + 1)
  /\ now' = now + 1
  /\ UNCHANGED <<crawlVars, taskVars, concVars, extractVars>>

\* a direct caller saves a dictionary built for a URL without an identifier
SaveNoId ==
  /\ pc # "detail"
  /\ now < MaxClock
  /\ \E url \in NoIdURLs, pay \in {PayA, PayB}, imgs \in ImageSeqs :
       save_property_to_db_simple(BuildRecord(url, pay, imgs), TRUE, now + 1)
  /\ now' = now + 1
  /\ UNCHANGED <<crawlVars, taskVars, concVars, extractVars>>

\* the img src values of a loaded detail page
PageImageSeqs == SeqsUpTo({ImgA, ImgRel}, MaxImgLen)

\* the image loop of scrape_complete_property_details: keeps a src that is
\* non-empty, starts with "http" and is not yet in image_urls
RECURSIVE ExtractImages(_, _, _)
ExtractImages(srcs, i, acc) ==
  IF i > Len(srcs) THEN acc
  ELSE LET src == srcs[i]
       IN IF src # <<>> /\ StartsWithHttp(src) /\ \A k \in 1..Len(acc) : acc[k] # src
          THEN ExtractImages(srcs, i + 1, Append(acc, src))
          ELSE ExtractImages(srcs, i + 1, acc)

\* (mutant) a failed load returns the dictionary of defaults instead of None
scrape_returns_defaults(url, loaded, pay, srcs) ==
  IF loaded THEN Some(BuildRecord(url, pay, ExtractImages(srcs, 1, <<>>)))
  ELSE Some(BuildRecord(url, PayEmpty, <<>>))

\* scrape_complete_property_details(driver, url): None when driver.get or the
\* readiness wait raises, else the dictionary built from the loaded page
scrape_complete_property_details(url, loaded, pay, srcs) ==
  IF loaded THEN Some(BuildRecord(url, pay, ExtractImages(srcs, 1, <<>>)))
  ELSE None

\* scrape_properties_from_detail_pages up to the start of the detail loop:
\* the URL list is collected, the counters start at 0, an empty list returns 0
StartCrawl ==
  /\ pc # "detail"
  /\ now < MaxClock
  /\ \E urls \in UrlLists :
       /\ property_urls' = urls
       /\ pc' = IF urls = <<>> THEN "done" ELSE "detail"
  /\ idx' = 0
  /\ new_count' = 0
  /\ update_count' = 0
  /\ UNCHANGED <<listings, images, now, property_data, last, visit>>
  /\ UNCHANGED <<concVars, taskVars, extractVars>>

\* (mutant) a URL whose page did not load is tried again
RetryIndex(i, loaded) == IF loaded THEN i + 1 ELSE i

\* the for loop goes on to the next URL whatever the iteration did
NextIndex(i, loaded) == i + 1

\* one iteration of `for i, property_url in enumerate(property_urls, 1)`
VisitPage ==
  /\ pc = "detail"
  /\ idx < Len(property_urls)
  /\ now < MaxClock
  /\ \E loaded \in BOOLEAN, pay \in {PayEmpty, PayA}, srcs \in PageImageSeqs :
       LET url == property_urls[idx + 1]
           data == scrape_complete_property_details(url, loaded, pay, srcs)
       IN /\ idx' = NextIndex(idx, loaded)
          /\ IF data # None
             THEN /\ save_property_to_db_simple(data[1], TRUE, now + 1)
                  /\ new_count' = IF last'.ret = "True" THEN new_count + 1 ELSE new_count
                  /\ update_count' =
                       IF last'.ret = "False" THEN update_count + 1 ELSE update_count
                  /\ visit' = [url |-> url, loaded |-> loaded, saved |-> TRUE,
                               outcome |-> last'.outcome,
                               counted |-> IF last'.ret = "True" THEN "new" ELSE "updated"]
             ELSE /\ property_data' = None
                  /\ visit' = [url |-> url, loaded |-> loaded, saved |-> FALSE,
                               outcome |-> "none", counted |-> "none"]
                  /\ UNCHANGED <<listings, images, last, new_count, update_count>>
  /\ now' = now + 1
  /\ UNCHANGED <<pc, property_urls, concVars, taskVars, extractVars>>

\* the first call of scrape_properties_from_detail_pages
StartOneCrawl == pc = "idle" /\ StartCrawl

\* the loop is over: driver.quit() and `return new_count + update_count`
FinishCrawl ==
  /\ pc = "detail"
  /\ idx = Len(property_urls)
  /\ pc' = "done"
  /\ UNCHANGED <<listings, images, now, property_data, last,
                 property_urls, idx, new_count, update_count, visit>>
  /\ UNCHANGED <<concVars, taskVars, extractVars>>

\* ------------------------------------------------- two concurrent workers
\* the image lists of the records the two workers save; the last one makes
\* the image loop raise (unique_together)
ConcImageSeqs == {<<>>, <<ImgA>>, <<ImgB>>, <<ImgA, ImgA>>}

\* scrape_properties_task reaches save_property_to_db_simple(property_data)
\* in worker w: the URL check passes and image_urls is popped
TaskCall(w) ==
  /\ tx[w].pc = "idle"
  /\ \E pay \in {PayA, PayB}, imgs \in ConcImageSeqs :
       tx' = [tx EXCEPT ![w] = [NoTx EXCEPT !.pc = "called",
                                            !.rec = Some(BuildRecord(U1, pay, imgs))]]
  /\ UNCHANGED <<storeVars, crawlVars, taskVars, lock, commits, extractVars>>

\* update_or_create inside the open transaction of worker w: the row of the
\* URL is locked (select_for_update, unique index) until w commits or rolls
\* back, so the statement waits while another worker holds it
TxUpsert(w) ==
  /\ tx[w].pc = "called"
  /\ lock = 0
  /\ now < MaxClock
  /\ LET uoc == update_or_create(listings, Pop(tx[w].rec[1]), now + 1)
     IN tx' = [tx EXCEPT ![w] =
                 [@ EXCEPT !.pc = IF uoc.ok THEN "row" ELSE "raised",
                           !.at = now + 1, !.id = uoc.id,
                           !.created = uoc.created,
                           !.listings = uoc.listings, !.images = images]]
  /\ lock' = w
  /\ now' = now + 1
  /\ UNCHANGED <<listings, images, property_data, last, crawlVars, taskVars, commits,
                 extractVars>>

\* `if image_urls:` the images of the listing are deleted and recreated
TxImages(w) ==
  /\ tx[w].pc = "row"
  /\ LET image_urls == PoppedImages(tx[w].rec[1])
         ins == InsertImages(DeleteImages(tx[w].images, tx[w].id), tx[w].id,
                             image_urls, 1, tx[w].at)
     IN tx' = [tx EXCEPT ![w] =
                 IF image_urls # <<>>
                 THEN [@ EXCEPT !.pc = IF ins.ok THEN "written" ELSE "raised",
                                !.images = ins.images]
                 ELSE [@ EXCEPT !.pc = "written"]]
  /\ UNCHANGED <<storeVars, crawlVars, taskVars, lock, commits, extractVars>>

\* the `with transaction.atomic():` block ends: commit, `return created`
TxCommit(w) ==
  /\ tx[w].pc = "written"
  /\ listings' = tx[w].listings
  /\ images' = tx[w].images
  /\ lock' = 0
  /\ commits' = Append(commits, w)
  /\ tx' = [tx EXCEPT ![w].pc = "returned"]
  /\ UNCHANGED <<now, property_data, last, crawlVars, taskVars, extractVars>>

\* an exception leaves the block: rollback, `return False`
TxRollback(w) ==
  /\ tx[w].pc = "raised"
  /\ lock' = 0
  /\ tx' = [tx EXCEPT ![w].pc = "returned"]
  /\ UNCHANGED <<storeVars, crawlVars, taskVars, commits, extractVars>>

\* ------------------------------------------------------------ page text
\* A text is a sequence of lines and a line a sequence of words (maximal
\* runs of non-blank characters). Every word used is either a run of digits
\* or holds no digit, so a match of \d+ is a whole word.
IntOf == ("0" :> 0) @@ ("1" :> 1) @@ ("2" :> 2) @@ ("3" :> 3) @@ ("5" :> 5)
         @@ ("45" :> 45)

\* str.isdigit() on a word, and on a line after strip()
IsDigit(w) == w \in DOMAIN IntOf
LineIsDigit(line) == Len(line) = 1 /\ IsDigit(line[1])

\* str.lower() on a word
LowerOf(w) ==
  CASE w \in {"Bedrooms", "BEDROOMS", "bedrooms"} -> "bedrooms"
    [] w \in {"Bathrooms", "BATHROOMS", "bathrooms"} -> "bathrooms"
    [] w \in {"Bedroom", "bedroom"} -> "bedroom"
    [] w \in {"Bathroom", "bathroom"} -> "bathroom"
    [] w \in {"Bed", "bed"} -> "bed"
    [] w \in {"Apartment", "apartment"} -> "apartment"
    [] w \in {"Penthouse", "penthouse"} -> "penthouse"
    [] w \in {"Studio", "studio"} -> "studio"
    [] w \in {"Garden", "garden"} -> "garden"
    [] w \in {"Flat", "flat"} -> "flat"
    [] OTHER -> w

\* the lower-case words that start with "bedroom", "bathroom", "bed", "bath"
StartsWithBedroom == {"bedroom", "bedrooms"}
StartsWithBathroom == {"bathroom", "bathrooms"}
StartsWithBed == {"bed", "bedroom", "bedrooms"}
StartsWithBath == {"bath", "bathroom", "bathrooms"}

\* the words of a text in reading order: \s* of a pattern also spans a
\* line break
RECURSIVE WordsOf(_)
WordsOf(text) ==
  IF text = <<>> THEN <<>> ELSE Head(text) \o WordsOf(Tail(text))

\* re.search(r'(\d+)\s*<word>', s.lower()) on the words ws, where `after`
\* holds the lower-case words that match <word> at their start:
\* int(group(1)) of the leftmost match, None without a match
CountBefore(ws, after) ==
  LET hits == {i \in 1..(Len(ws) - 1) :
                 IsDigit(ws[i]) /\ LowerOf(ws[i + 1]) \in after}
  IN IF hits = {} THEN None
     ELSE Some(IntOf[ws[CHOOSE i \in hits : \A j \in hits : i <= j]])

\* `not v` for a count v that is None or an integer
Falsy(v) == v = None \/ v = Some(0)

\* ------------------------------------------------------- the search card
\* A card is the content attribute of its meta[itemprop='name'] element
\* (None: no such element), its dt elements, each with the p elements of
\* the dd that follows it, and the lines of its other visible text.
MaxPairs == 2

CardMetas ==
  {None, Some(<<"5", "bedroom", "penthouse">>), Some(<<"0", "bedroom", "studio">>),
   Some(<<"2", "bathroom", "flat">>), Some(<<"Garden", "flat">>)}
CardPairs ==
  {[dt |-> <<"BEDROOMS">>, dd |-> << <<"3">> >>],
   [dt |-> <<"BEDROOMS">>, dd |-> << <<"0">> >>],
   [dt |-> <<"BATHROOMS">>, dd |-> << <<"2">> >>]}
CardRests ==
  {<<>>, << <<"2", "bed", "flat">> >>, << <<"Apartment">>, <<"1">>, <<"1">> >>,
   << <<"Studio">>, <<"1", "bathroom">> >>}
Cards ==
  {[meta |-> m, pairs |-> ps, rest |-> r] :
     m \in CardMetas, ps \in SeqsUpTo(CardPairs, MaxPairs), r \in CardRests}

\* card.text: the visible lines, the label/value pairs first
RECURSIVE PairLines(_)
PairLines(ps) ==
  IF ps = <<>> THEN <<>>
  ELSE <<Head(ps).dt>> \o Head(ps).dd \o PairLines(Tail(ps))
CardText(card) == PairLines(card.pairs) \o card.rest

\* the meta strategy of extract_bedrooms_bathrooms_from_elements
MetaCounts(card) ==
  IF card.meta = None \/ card.meta[1] = <<>>
  THEN [bedrooms |-> None, bathrooms |-> None]
  ELSE [bedrooms |-> CountBefore(card.meta[1], StartsWithBedroom),
        bathrooms |-> CountBefore(card.meta[1], StartsWithBathroom)]

\* `for p in dd.find_elements("p"): if p.text.strip().isdigit(): ...; break`
\* leaves `old` when no p is a number
FirstDigitP(dd, old) ==
  LET hits == {i \in 1..Len(dd) : LineIsDigit(dd[i])}
  IN IF hits = {} THEN old
     ELSE Some(IntOf[dd[CHOOSE i \in hits : \A j \in hits : i <= j][1]])

\* "BEDROOM" in dt.text.strip().upper()
LabelHas(dt, after) == \E i \in 1..Len(dt) : LowerOf(dt[i]) \in after

\* the loop `for dt in dt_elements` from pair i on
RECURSIVE PairCounts(_, _, _)
PairCounts(ps, i, acc) ==
  IF i > Len(ps) THEN acc
  ELSE IF LabelHas(ps[i].dt, StartsWithBedroom)
       THEN PairCounts(ps, i + 1,
                       [acc EXCEPT !.bedrooms = FirstDigitP(ps[i].dd, @)])
       ELSE IF LabelHas(ps[i].dt, StartsWithBathroom)
            THEN PairCounts(ps, i + 1,
                            [acc EXCEPT !.bathrooms = FirstDigitP(ps[i].dd, @)])
            ELSE PairCounts(ps, i + 1, acc)

\* extract_bedrooms_bathrooms_from_elements(card): the meta tag first, the
\* dt/dd pairs `if not bedrooms and not bathrooms`
extract_bedrooms_bathrooms_from_elements(card) ==
  LET m == MetaCounts(card)
  IN IF Falsy(m.bedrooms) /\ Falsy(m.bathrooms)
     THEN PairCounts(card.pairs, 1, m)
     ELSE m

\* any(ptype in line.lower() for ptype in property_types)
PropertyTypeWords == {"apartment", "penthouse"}
HasPropertyType(line) ==
  \E i \in 1..Len(line) : LowerOf(line[i]) \in PropertyTypeWords

\* the first loop of extract_bedrooms_bathrooms: a property type line
\* followed by two lines that are numbers
TypeThenTwoNumbers(lines) ==
  LET hits == {k \in 1..(Len(lines) - 2) :
                 /\ HasPropertyType(lines[k])
                 /\ LineIsDigit(lines[k + 1])
                 /\ LineIsDigit(lines[k + 2])}
  IN IF hits = {} THEN [bedrooms |-> None, bathrooms |-> None]
     ELSE LET k == CHOOSE i \in hits : \A j \in hits : i <= j
          IN [bedrooms |-> Some(IntOf[lines[k + 1][1]]),
              bathrooms |-> Some(IntOf[lines[k + 2][1]])]

\* `for pattern in bed_patterns`: the first pattern that matches decides
IsBed == {"bed"}
IsBr == {"br"}
IsBath == {"bath"}
IsBa == {"ba"}
BedPatterns(ws) ==
  LET a == CountBefore(ws, StartsWithBedroom)
      b == CountBefore(ws, IsBed)
      c == CountBefore(ws, StartsWithBed)
      d == CountBefore(ws, IsBr)
  IN IF a # None THEN a ELSE IF b # None THEN b ELSE IF c # None THEN c ELSE d
BathPatterns(ws) ==
  LET a == CountBefore(ws, StartsWithBathroom)
      b == CountBefore(ws, IsBath)
      c == CountBefore(ws, StartsWithBath)
      d == CountBefore(ws, IsBa)
  IN IF a # None THEN a ELSE IF b # None THEN b ELSE IF c # None THEN c ELSE d

\* extract_bedrooms_bathrooms(text)
extract_bedrooms_bathrooms(text) ==
  IF text = <<>> THEN [bedrooms |-> None, bathrooms |-> None]
  ELSE LET t == TypeThenTwoNumbers(text)
       IN IF Falsy(t.bedrooms) /\ Falsy(t.bathrooms)
          THEN [bedrooms |-> BedPatterns(WordsOf(text)),
                bathrooms |-> BathPatterns(WordsOf(text))]
          ELSE t

\* (mutant) the text scan always runs and decides
CardCountsTextFirst(card) == extract_bedrooms_bathrooms(CardText(card))

\* extract_property_data_from_card, "--- Bedrooms & Bathrooms ---"
CardCounts(card) ==
  LET e == extract_bedrooms_bathrooms_from_elements(card)
  IN IF Falsy(e.bedrooms) /\ Falsy(e.bathrooms)
     THEN extract_bedrooms_bathrooms(CardText(card))
     ELSE e

InitCard ==
  /\ InitStore /\ InitConc
  /\ page \in Cards
  /\ extracted = None
  /\ price_str = <<>>
  /\ price_val = NoPriceCall

\* extract_property_data_from_card(card) fills bedrooms and bathrooms
ExtractCard ==
  /\ extracted = None
  /\ extracted' = Some(CardCounts(page))
  /\ UNCHANGED <<storeVars, crawlVars, taskVars, concVars, page, price_str, price_val>>

\* ------------------------------------------------------- the detail page
\* A detail page is the sequence of its elements in document order; an
\* element has a tag, a class attribute, the (tag, class) of its ancestors
\* and its visible text.
MaxElems == 2

\* len(w) of the words used
CharLen(w) ==
  CASE w \in {"A", "a", "3", "5", "2"} -> 1
    [] w \in {"to", "is", "45"} -> 2
    [] w \in {"Two", "the", "Key", "two", "The", "and"} -> 3
    [] w \in {"flat", "free", "with"} -> 4
    [] w \in {"Close", "chain", "close", "local", "shops", "South"} -> 5
    [] w \in {"garden", "permit", "facing"} -> 6
    [] w \in {"bedroom", "station", "Offered", "Private", "parking",
             "private", "balcony", "PARKING"} -> 7
    [] w \in {"features", "property", "Parking:", "bedrooms", "BEDROOMS"} -> 8
    [] w \in {"apartment", "allocated", "ALLOCATED", "bathrooms"} -> 9
    [] w \in {"Description", "beautifully", "refurbished"} -> 11
    [] OTHER -> 1

\* the keywords that are substrings of w.lower()
KeywordsIn(w) ==
  CASE w \in {"bedroom", "bedrooms", "BEDROOMS"} -> {"bedroom"}
    [] w \in {"garden"} -> {"garden"}
    [] w \in {"beautifully"} -> {"beautifully"}
    [] w \in {"refurbished"} -> {"refurbished"}
    [] w \in {"apartment"} -> {"apartment"}
    [] w \in {"property"} -> {"property"}
    [] w \in {"parking", "PARKING", "Parking:"} -> {"parking"}
    [] w \in {"balcony"} -> {"balcony"}
    [] w \in {"bathrooms"} -> {"bathroom"}
    [] OTHER -> {}

\* len(text) of a line and of a text
RECURSIVE LineLen(_)
LineLen(line) ==
  IF line = <<>> THEN 0
  ELSE CharLen(Head(line)) + (IF Len(line) > 1 THEN 1 ELSE 0) + LineLen(Tail(line))
RECURSIVE TextLen(_)
TextLen(text) ==
  IF text = <<>> THEN 0
  ELSE LineLen(Head(text)) + (IF Len(text) > 1 THEN 1 ELSE 0) + TextLen(Tail(text))

\* str.strip() on a text: blank lines at both ends go
RECURSIVE Strip(_)
Strip(text) ==
  IF text = <<>> THEN <<>>
  ELSE IF Head(text) = <<>> THEN Strip(Tail(text))
  ELSE IF text[Len(text)] = <<>> THEN Strip(SubSeq(text, 1, Len(text) - 1))
  ELSE text

\* any(word in text.lower() for word in kws)
HasKeyword(text, kws) ==
  \E i \in 1..Len(text) : \E j \in 1..Len(text[i]) : KeywordsIn(text[i][j]) \cap kws # {}

Elem(tag, class, anc, text) ==
  [tag |-> tag, class |-> class, anc |-> anc, text |-> text]
Ul(class) == [tag |-> "ul", class |-> class]

ShortLines ==
  << <<"Two", "bedroom", "garden", "flat">>, <<"Close", "to", "the", "station">>,
     <<"Offered", "chain", "free">> >>
LongLines ==
  << <<"A", "beautifully", "refurbished", "two", "bedroom", "apartment", "with",
       "garden">>,
     <<"The", "property", "is", "close", "to", "the", "station", "and", "local",
       "shops">>,
     <<"Offered", "chain", "free", "with", "allocated", "parking", "and", "a",
       "private", "balcony">> >>
\* "Description", three lines, "Key features", one feature
Section(lines) ==
  << <<"Description">> >> \o lines \o << <<"Key", "features">>, <<"Private", "garden">> >>

SpanBeds3 == Elem("span", "", {}, << <<"3", "bedrooms">> >>)
PBeds5 == Elem("p", "", {}, << <<"5", "bedroom", "flat">> >>)
SpanBeds45 == Elem("span", "", {}, << <<"45", "bedrooms">> >>)
SpanBaths2 == Elem("span", "", {}, << <<"2", "bathrooms">> >>)
DtBedrooms == Elem("dt", "", {}, << <<"BEDROOMS">> >>)
LiGarden == Elem("li", "", {Ul("key-features")}, << <<"Private", "garden">> >>)
LiSouth == Elem("li", "", {Ul("")}, << <<"South", "facing">> >>)
LiUpper == Elem("li", "", {Ul("")}, << <<"ALLOCATED", "PARKING">> >>)
LiColon == Elem("li", "", {Ul("")}, << <<"Parking:", "permit">> >>)
LiGardenPlain == Elem("li", "", {Ul("")}, << <<"Private", "garden">> >>)
DivShort == Elem("div", "property-description", {}, Section(ShortLines))
DivLong == Elem("div", "property-description", {}, Section(LongLines))

DetailElements ==
  {SpanBeds3, PBeds5, SpanBeds45, SpanBaths2, DtBedrooms, LiGarden, LiSouth,
   DivShort, DivLong}
\* a "Key features" list with an upper-case line, a line with a colon and
\* two feature lines
FeaturesPage == <<LiUpper, LiColon, LiGardenPlain, LiSouth>>
DetailPages == SeqsUpTo(DetailElements, MaxElems) \cup {FeaturesPage}

\* [class*='sub']: sub is a substring of the class attribute
ClassContains(class, sub) ==
  CASE class = "key-features" -> sub \in {"key-features", "features"}
    [] class = "property-description" -> sub \in {"description"}
    [] OTHER -> FALSE

\* whether element e matches a CSS selector the extraction uses; no element
\* of the pages carries the generated class names or a data-testid
\* attribute, and Selenium raises on the two selectors that are not CSS, so
\* find_elements returns nothing for those
Matches(sel, e) ==
  CASE sel \in {"dt", "span", "p", "div", "li"} -> e.tag = sel
    [] sel = "[class*='bedroom']" -> ClassContains(e.class, "bedroom")
    [] sel = "[class*='bathroom']" -> ClassContains(e.class, "bathroom")
    [] sel = "[class*='description']" -> ClassContains(e.class, "description")
    [] sel = "[class*='key-features'] li" ->
         e.tag = "li" /\ \E a \in e.anc : ClassContains(a.class, "key-features")
    [] sel = "[class*='features'] li" ->
         e.tag = "li" /\ \E a \in e.anc : ClassContains(a.class, "features")
    [] sel = "ul li" -> e.tag = "li" /\ \E a \in e.anc : a.tag = "ul"
    [] OTHER -> FALSE

\* driver.find_elements(By.CSS_SELECTOR, sel), in document order
find_elements(pg, sel) == SelectSeq(pg, LAMBDA e : Matches(sel, e))

\* the elements the loops `for selector in selectors: for element in
\* find_elements(selector)` visit, in the order of the visits
RECURSIVE Visits(_, _)
Visits(pg, sels) ==
  IF sels = <<>> THEN <<>>
  ELSE find_elements(pg, Head(sels)) \o Visits(pg, Tail(sels))

bedroom_bathroom_selectors ==
  <<"dt", "[class*='bedroom']", "[class*='bathroom']", "span", "p">>

\* "Extract Bedrooms and Bathrooms": every visited element whose text
\* matches assigns property_data['bedrooms'] / ['bathrooms']
RECURSIVE ScanCounts(_, _, _)
ScanCounts(els, i, acc) ==
  IF i > Len(els) THEN acc
  ELSE LET ws == WordsOf(Strip(els[i].text))
           bed == CountBefore(ws, StartsWithBedroom)
           bath == CountBefore(ws, StartsWithBathroom)
       IN ScanCounts(els, i + 1,
            [bedrooms |-> IF bed # None THEN bed ELSE acc.bedrooms,
             bathrooms |-> IF bath # None THEN bath ELSE acc.bathrooms])

description_selectors ==
  <<"div.STw8udCxUaBUMfOOZu0iL div", "[data-testid='primary-layout'] div",
    ".STw8udCxUaBUMfOOZu0iL", "[class*='description']",
    "div:contains('Description')">>
DescriptionWords ==
  {"bedroom", "apartment", "property", "beautifully", "refurbished", "spacious",
   "luxury", "modern", "period"}
FallbackDescriptionWords ==
  {"bedroom", "apartment", "property", "beautifully", "refurbished"}

\* the text of the first element of els that is longer than n characters
\* and holds one of the words kws, '' when there is none
FirstLongText(els, n, kws) ==
  LET hits == {i \in 1..Len(els) :
                 TextLen(Strip(els[i].text)) > n /\ HasKeyword(Strip(els[i].text), kws)}
  IN IF hits = {} THEN <<>>
     ELSE Strip(els[CHOOSE i \in hits : \A j \in hits : i <= j].text)

\* "Extract Description": the selectors, then any div
ExtractDescription(pg) ==
  LET d == FirstLongText(Visits(pg, description_selectors), 200, DescriptionWords)
  IN IF d # <<>> THEN d
     ELSE FirstLongText(find_elements(pg, "div"), 300, FallbackDescriptionWords)

key_features_selectors ==
  <<"ul._1uI3IvdF5sIuBtRIvKrreQ li", "ul li.1IhZ24u1NHMa5Y6gDH90A",
    "[class*='key-features'] li", "[class*='features'] li", "ul li">>
FeatureWords ==
  {"bedroom", "bathroom", "reception", "lift", "concierge", "garden", "parking",
   "garage", "balcony", "terrace"}
FallbackFeatureWords == {"bedroom", "bathroom", "reception", "lift", "concierge"}

\* the texts of the elements of els, in order, that are shorter than n
\* characters, longer than 2 and hold one of the words kws
RECURSIVE FeatureTexts(_, _, _)
FeatureTexts(els, n, kws) ==
  IF els = <<>> THEN <<>>
  ELSE LET text == Strip(Head(els).text)
       IN (IF text # <<>> /\ TextLen(text) < n /\ TextLen(text) > 2
              /\ HasKeyword(text, kws)
           THEN <<text>> ELSE <<>>) \o FeatureTexts(Tail(els), n, kws)

\* "Extract Key Features": every selector appends, then any li
ExtractKeyFeatures(pg) ==
  LET f == FeatureTexts(Visits(pg, key_features_selectors), 100, FeatureWords)
  IN IF f # <<>> THEN f
     ELSE FeatureTexts(find_elements(pg, "li"), 50, FallbackFeatureWords)

\* the fields scrape_complete_property_details reads from the loaded page
DetailFields(pg) ==
  LET c == ScanCounts(Visits(pg, bedroom_bathroom_selectors), 1,
                      [bedrooms |-> None, bathrooms |-> None])
  IN [bedrooms |-> c.bedrooms, bathrooms |-> c.bathrooms,
      description |-> ExtractDescription(pg),
      key_features |-> ExtractKeyFeatures(pg)]

InitDetail ==
  /\ InitStore /\ InitConc
  /\ page \in DetailPages
  /\ extracted = None
  /\ price_str = <<>>
  /\ price_val = NoPriceCall

\* scrape_complete_property_details(driver, url) on the loaded page
ScrapeDetail ==
  /\ extracted = None
  /\ extracted' = Some(DetailFields(page))
  /\ UNCHANGED <<storeVars, crawlVars, taskVars, concVars, page, price_str, price_val>>

\* ------------------------------------------------- the search-page save
\* external_id of extract_property_data_from_card: the digits after
\* /properties/, None when the URL has none
CardExternalId(url) ==
  IF ExternalIdOf(url) = "" THEN None ELSE Some(ExternalIdOf(url))

\* the listing URLs of the cards of a search page
CardURLs == {U1, U1x}

\* the dictionary extract_property_data_from_card returns; the identifier
\* of a URL that has one is stored as the string itself
CardRecord(url, pay, imgs) ==
  [external_id |-> IF CardExternalId(url) = None THEN "" ELSE CardExternalId(url)[1],
   title |-> pay.title, price |-> pay.price,
   price_numeric |-> pay.price_numeric, property_type |-> pay.property_type,
   bedrooms |-> pay.bedrooms, bathrooms |-> pay.bathrooms, size |-> pay.size,
   listing_url |-> url, image_urls |-> imgs, date_added |-> pay.date_added]

\* the body of `with transaction.atomic():` of save_property_to_db: with a
\* driver and a created row it calls scrape_property_details, a name that
\* no module of the repository defines, so the call raises NameError
DriverSaveBody(ls, imgs, r, t, driver) ==
  LET image_urls == PoppedImages(r)
      uoc == update_or_create(ls, Pop(r), t)
  IN IF ~uoc.ok
     THEN [ok |-> FALSE, created |-> FALSE, listings |-> ls, images |-> imgs]
     ELSE IF driver /\ uoc.created /\ r.listing_url # <<>>
     THEN [ok |-> FALSE, created |-> TRUE, listings |-> uoc.listings, images |-> imgs]
     ELSE IF image_urls # <<>>
          THEN LET ins == InsertImages(DeleteImages(imgs, uoc.id), uoc.id, image_urls, 1, t)
               IN [ok |-> ins.ok, created |-> uoc.created,
                   listings |-> uoc.listings, images |-> ins.images]
          ELSE [ok |-> TRUE, created |-> uoc.created,
                listings |-> uoc.listings, images |-> imgs]

\* what save_property_to_db(r, driver) does to the storage and returns
DriverSaveOutcome(ls, imgs, r, t, driver) ==
  IF r.listing_url = <<>>
  THEN [outcome |-> "nourl", ret |-> "False", listings |-> ls, images |-> imgs,
        record |-> r]
  ELSE LET body == DriverSaveBody(ls, imgs, r, t, driver)
           db == Atomic(ls, imgs, body)
       IN [outcome |-> IF ~body.ok THEN "failed"
                       ELSE IF body.created THEN "created" ELSE "updated",
           ret |-> IF body.ok /\ body.created THEN "True" ELSE "False",
           listings |-> db.listings, images |-> db.images,
           record |-> Pop(r)]

\* save_property_to_db(r, driver) at clock reading t
save_property_to_db(r, driver, t) ==
  LET res == DriverSaveOutcome(listings, images, r, t, driver)
  IN /\ listings' = res.listings
     /\ images' = res.images
     /\ property_data' = Some(res.record)
     /\ last' = [at |-> t, arg |-> Some(r), outcome |-> res.outcome,
                 ret |-> res.ret, repeat |-> (last.arg = Some(r))]

\* one card of the loop of scrape_rightmove_search_results: the card's
\* dictionary is saved with the driver and the result is counted
SaveCard ==
  /\ pc # "detail"
  /\ now < MaxClock
  /\ \E url \in CardURLs, pay \in Payloads, imgs \in ImageSeqs :
       save_property_to_db(CardRecord(url, pay, imgs), TRUE, now + 1)
  /\ new_count' = IF last'.ret = "True" THEN new_count + 1 ELSE new_count
  /\ update_count' = IF last'.ret = "False" THEN update_count + 1 ELSE update_count
  /\ now' = now + 1
  /\ UNCHANGED <<pc, property_urls, idx, visit, concVars, taskVars, extractVars>>

\* ------------------------------------------- accessor calls that raise
\* the calls on the driver after the readiness wait: driver.title, the two
\* find_elements of the debug block, and the calls of a field's block
AccessorCalls == {"title", "debug", "bedrooms", "description", "key_features"}

\* the fields read from the loaded page when the calls in `failing` raise:
\* the except clause of a field's block leaves the field at its default
DetailFieldsWith(pg, url, failing) ==
  LET f == DetailFields(pg)
  IN [listing_url |-> url,
      bedrooms |-> IF "bedrooms" \in failing THEN None ELSE f.bedrooms,
      bathrooms |-> IF "bedrooms" \in failing THEN None ELSE f.bathrooms,
      description |-> IF "description" \in failing THEN <<>> ELSE f.description,
      key_features |-> IF "key_features" \in failing THEN <<>> ELSE f.key_features]

\* what scrape_complete_property_details returns for the loaded page:
\* `page_title = driver.title` stands outside every inner try, so when it
\* raises the outer except clause returns None; the debug block has its own
\* `except: pass`
DetailReturn(pg, url, failing) ==
  IF "title" \in failing THEN None ELSE Some(DetailFieldsWith(pg, url, failing))

\* scrape_complete_property_details(driver, url) on a page that has loaded,
\* with any of the later calls on the driver raising
ScrapeDetailCalls ==
  /\ extracted = None
  /\ \E url \in {U1, N1}, failing \in SUBSET AccessorCalls :
       extracted' = Some([url |-> url, failing |-> failing,
                          ret |-> DetailReturn(page, url, failing)])
  /\ UNCHANGED <<storeVars, crawlVars, taskVars, concVars, page, price_str, price_val>>

\* ------------------------------------------------------ the page's images
MaxImgs == 3

\* an absolute URL on a host that is not the site's media host
ImgAd == <<"http", "s://ads/x.jpg">>

\* an img element: its src and data-src attributes (None: attribute absent)
\* and whether an ancestor's class contains 'photo' or 'image'
ImgElements ==
  {[src |-> Some(ImgA), data |-> None, photo |-> TRUE],
   [src |-> Some(ImgA), data |-> Some(ImgA), photo |-> FALSE],
   [src |-> Some(ImgAd), data |-> None, photo |-> FALSE],
   [src |-> Some(ImgRel), data |-> None, photo |-> TRUE],
   [src |-> None, data |-> Some(ImgB), photo |-> TRUE]}
ImagePages == SeqsUpTo(ImgElements, MaxImgs)

image_selectors ==
  <<"img[src]", "img[data-src]", "[class*='photo'] img", "[class*='image'] img">>

\* driver.find_elements for an image selector, in document order
FindImages(pg, sel) ==
  SelectSeq(pg, LAMBDA e :
    CASE sel = "img[src]" -> e.src # None
      [] sel = "img[data-src]" -> e.data # None
      [] OTHER -> e.photo)

\* img.get_attribute("src") or img.get_attribute("data-src")
SrcOf(e) == IF e.src # None /\ e.src[1] # <<>> THEN e.src[1]
            ELSE IF e.data # None THEN e.data[1] ELSE <<>>

\* the src values in the order of `for selector in image_selectors: for img
\* in img_elements`
RECURSIVE ImageVisits(_, _)
ImageVisits(pg, sels) ==
  IF sels = <<>> THEN <<>>
  ELSE [i \in 1..Len(FindImages(pg, Head(sels))) |->
          SrcOf(FindImages(pg, Head(sels))[i])] \o ImageVisits(pg, Tail(sels))

\* "Extract Images" of scrape_complete_property_details
PageImages(pg) == ExtractImages(ImageVisits(pg, image_selectors), 1, <<>>)

InitImagePage ==
  /\ InitStore /\ InitConc
  /\ page \in ImagePages
  /\ extracted = None
  /\ price_str = <<>>
  /\ price_val = NoPriceCall

\* the image block of scrape_complete_property_details on the loaded page
ScrapeImages ==
  /\ extracted = None
  /\ extracted' = Some(PageImages(page))
  /\ UNCHANGED <<storeVars, crawlVars, taskVars, concVars, page, price_str, price_val>>

\* ------------------------------------------------------------ the task
MaxPagesArg == 3
MaxSitePages == 3

\* scrape_listing_selenium: max_pages=2, whatever the caller passed
DetailCrawlPages == 2

\* where scrape_properties_from_detail_pages goes on with the URL list of
\* task t: `if not property_urls: return 0`
AfterSearch(t) == IF t.urls = 0 THEN "return" ELSE "detail_open"

\* (mutant) no finally clause: a caught exception leaves the function
\* without driver.quit()
NoFinally(quit_pc, next_pc) == next_pc

\* try / except Exception / finally: after the handler, control is at the
\* finally clause, and from there at next_pc
Finally(quit_pc, next_pc) == quit_pc

\* scrape_properties_task(search_url, max_pages) up to the first statement
\* of the try of scrape_property_urls_from_search: the first driver exists
TaskStart ==
  /\ task.pc = "idle"
  /\ \E mp \in 1..MaxPagesArg, site \in 1..MaxSitePages :
       task' = [NoTask EXCEPT !.pc = "search_get", !.max_pages = mp,
                              !.limit = DetailCrawlPages, !.site = site,
                              !.opened = 1]
  /\ drivers' = drivers \cup {"search"}
  /\ UNCHANGED <<storeVars, crawlVars, tx, lock, commits, extractVars>>

\* driver.get(search_url) and the wait for the first card: either raises
SearchGet ==
  /\ task.pc = "search_get"
  /\ \E ok \in BOOLEAN :
       task' = IF ok THEN [task EXCEPT !.pc = "search_page", !.page = 1]
               ELSE [task EXCEPT !.pc = Finally("search_quit", AfterSearch(task)),
                                 !.raised = TRUE]
  /\ UNCHANGED <<storeVars, crawlVars, tx, lock, commits, extractVars, drivers>>

\* one iteration of `for page in range(1, max_pages + 1)`: the cards of the
\* page are read, then the next-page control is looked up and clicked; the
\* control is enabled on every page of the site but the last
SearchPage ==
  /\ task.pc = "search_page"
  /\ \E ok \in BOOLEAN, found \in 0..1 :
       task' =
         IF ~ok
         THEN [task EXCEPT !.pc = Finally("search_quit", AfterSearch(task)),
                           !.raised = TRUE]
         ELSE LET t == [task EXCEPT !.read = task.read + 1,
                                    !.urls = task.urls + found]
              IN IF task.page >= task.site \/ task.page + 1 > task.limit
                 THEN [t EXCEPT !.pc = "search_quit"]
                 ELSE [t EXCEPT !.page = task.page + 1]
  /\ UNCHANGED <<storeVars, crawlVars, tx, lock, commits, extractVars, drivers>>

\* `finally: driver.quit()` of scrape_property_urls_from_search and the
\* return of property_urls
SearchQuit ==
  /\ task.pc = "search_quit"
  /\ drivers' = drivers \ {"search"}
  /\ task' = [task EXCEPT !.pc = AfterSearch(task)]
  /\ UNCHANGED <<storeVars, crawlVars, tx, lock, commits, extractVars>>

\* the second webdriver.Chrome(...) of scrape_properties_from_detail_pages
DetailOpen ==
  /\ task.pc = "detail_open"
  /\ drivers' = drivers \cup {"detail"}
  /\ task' = [task EXCEPT !.pc = "detail_loop", !.left = task.urls,
                          !.opened = task.opened + 1]
  /\ UNCHANGED <<storeVars, crawlVars, tx, lock, commits, extractVars>>

\* one iteration of the detail loop, or an exception raised inside it
DetailVisit ==
  /\ task.pc = "detail_loop"
  /\ task.left > 0
  /\ \E ok \in BOOLEAN :
       task' = IF ok THEN [task EXCEPT !.left = task.left - 1]
               ELSE [task EXCEPT !.pc = Finally("detail_quit", "return"),
                                 !.raised = TRUE]
  /\ UNCHANGED <<storeVars, crawlVars, tx, lock, commits, extractVars, drivers>>

\* the detail loop is over
DetailDone ==
  /\ task.pc = "detail_loop"
  /\ task.left = 0
  /\ task' = [task EXCEPT !.pc = "detail_quit"]
  /\ UNCHANGED <<storeVars, crawlVars, tx, lock, commits, extractVars, drivers>>

\* `finally: driver.quit()` of scrape_properties_from_detail_pages and the
\* return to scrape_properties_task
DetailQuit ==
  /\ task.pc = "detail_quit"
  /\ drivers' = drivers \ {"detail"}
  /\ task' = [task EXCEPT !.pc = "return"]
  /\ UNCHANGED <<storeVars, crawlVars, tx, lock, commits, extractVars>>

\* ---------------------------------------------------------- price texts
\* A price text is a sequence of characters; a float is kept exactly, as
\* its integer part and the digits of its fraction without trailing zeros.
MaxPriceLen == 4

\* "L" is the pound sign, "p" any other character that is no digit
PriceChars == {"L", "p", ",", ".", "0", "1"}
CurrencyChars == {"L"}
PriceTexts == SeqsUpTo(PriceChars, MaxPriceLen)

DigitChars == <<"0", "1", "2", "3", "4", "5", "6", "7", "8", "9">>
IsDigitChar(c) == \E i \in 1..10 : DigitChars[i] = c
DigitVal(c) == (CHOOSE i \in 1..10 : DigitChars[i] = c) - 1

\* price_str.replace(",", "")
RemoveCommas(t) == SelectSeq(t, LAMBDA c : c # ",")

\* (mutant) the decimal point is stripped too: re.sub(r"[^\d]", "", ...)
KeepDigits(t) == SelectSeq(t, LAMBDA c : IsDigitChar(c))

\* re.sub(r"[^\d\.]", "", ...)
KeepDigitsAndDots(t) == SelectSeq(t, LAMBDA c : IsDigitChar(c) \/ c = ".")

\* the integer a run of digits denotes (0 for the empty run)
RECURSIVE NumOf(_)
NumOf(ds) ==
  IF ds = <<>> THEN 0
  ELSE NumOf(SubSeq(ds, 1, Len(ds) - 1)) * 10 + DigitVal(ds[Len(ds)])

RECURSIVE DropTrailingZeros(_)
DropTrailingZeros(ds) ==
  IF ds # <<>> /\ ds[Len(ds)] = "0"
  THEN DropTrailingZeros(SubSeq(ds, 1, Len(ds) - 1))
  ELSE ds

\* float(s) for s of digits and points: a ValueError (None here) unless s
\* has at most one point and at least one digit
ParseFloat(s) ==
  LET dots == {i \in 1..Len(s) : s[i] = "."}
  IN IF Cardinality(dots) > 1 \/ Len(s) - Cardinality(dots) = 0 THEN None
     ELSE IF dots = {}
          THEN Some([int |-> NumOf(s), frac |-> <<>>])
          ELSE LET d == CHOOSE i \in dots : TRUE
               IN Some([int |-> NumOf(SubSeq(s, 1, d - 1)),
                        frac |-> DropTrailingZeros(SubSeq(s, d + 1, Len(s)))])

\* extract_price_numeric(price_str)
extract_price_numeric(t) ==
  IF t = <<>> THEN None
  ELSE LET s == KeepDigitsAndDots(RemoveCommas(t))
       IN IF s = <<>> THEN None ELSE ParseFloat(s)

\* the decimal digits of a natural number
RECURSIVE DigitsOf(_)
DigitsOf(n) ==
  IF n < 10 THEN <<DigitChars[n + 1]>>
  ELSE DigitsOf(n \div 10) \o <<DigitChars[(n % 10) + 1]>>

\* the canonical text of a value: its decimal expansion with a point and at
\* least one fraction digit (what str() gives for a float of this size)
FormatFloat(v) ==
  DigitsOf(v.int) \o <<".">> \o (IF v.frac = <<>> THEN <<"0">> ELSE v.frac)

InitPrice ==
  /\ InitStore /\ InitConc
  /\ page = NoPage
  /\ extracted = None
  /\ price_str \in PriceTexts
  /\ price_val = NoPriceCall

\* the caller passes the text it found to extract_price_numeric
ParsePrice ==
  /\ price_val.calls = 0
  /\ price_val' = [calls |-> 1, text |-> price_str,
                   ret |-> extract_price_numeric(price_str)]
  /\ UNCHANGED <<storeVars, crawlVars, taskVars, concVars, page, extracted, price_str>>

\* the value returned is written out and given to extract_price_numeric again
ReparsePrice ==
  /\ price_val.calls = 1
  /\ price_val.ret # None
  /\ price_str' = FormatFloat(price_val.ret[1])
  /\ price_val' = [price_val EXCEPT !.calls = 2,
                                    !.ret = extract_price_numeric(price_str')]
  /\ UNCHANGED <<storeVars, crawlVars, taskVars, concVars, page, extracted>>

\* ------------------------------------------- the price found in card text
\* [\d,]
IsNumChar(c) == IsDigitChar(c) \/ c = ","

\* the last position of the greedy run [\d,]+ that starts at position i
RunEnd(t, i) ==
  CHOOSE j \in i..Len(t) :
    /\ \A k \in i..j : IsNumChar(t[k])
    /\ (j = Len(t) \/ ~IsNumChar(t[j + 1]))

\* the position after (?:\.\d{2})? is tried behind position j
CentsEnd(t, j) ==
  IF j + 3 <= Len(t) /\ t[j + 1] = "." /\ IsDigitChar(t[j + 2]) /\ IsDigitChar(t[j + 3])
  THEN j + 3 ELSE j

\* where a match of the pattern <pound>[\d,]+(?:\.\d{2})? can start
PoundFirstStarts(t) == {i \in 1..(Len(t) - 1) : t[i] = "L" /\ IsNumChar(t[i + 1])}
PoundFirstAt(t, i) == SubSeq(t, i, CentsEnd(t, RunEnd(t, i + 1)))

\* re.search of <pound>[\d,]+(?:\.\d{2})?: the leftmost match, None when
\* there is none; on a text without white space the second pattern,
\* <pound>\s*[\d,]+(?:\.\d{2})?, matches exactly the same
SearchPoundFirst(t) ==
  IF PoundFirstStarts(t) = {} THEN None
  ELSE Some(PoundFirstAt(t, CHOOSE i \in PoundFirstStarts(t) :
                               \A j \in PoundFirstStarts(t) : i <= j))

\* the position of the pound sign that ends a match of
\* [\d,]+(?:\.\d{2})?\s*<pound> started at i, 0 when none does
PoundLastEnd(t, i) ==
  LET j == RunEnd(t, i)
      k == CentsEnd(t, j)
  IN IF k < Len(t) /\ t[k + 1] = "L" THEN k + 1
     ELSE IF j < Len(t) /\ t[j + 1] = "L" THEN j + 1
     ELSE 0
PoundLastStarts(t) ==
  {i \in 1..Len(t) : IsNumChar(t[i]) /\ PoundLastEnd(t, i) # 0}

\* re.search of [\d,]+(?:\.\d{2})?\s*<pound>
SearchPoundLast(t) ==
  IF PoundLastStarts(t) = {} THEN None
  ELSE LET i == CHOOSE a \in PoundLastStarts(t) : \A b \in PoundLastStarts(t) : a <= b
       IN Some(SubSeq(t, i, PoundLastEnd(t, i)))

\* "Fallback: extract price from text using regex": the first pattern that
\* matches gives the price, its leftmost match; '' when none matches
TextPrice(t) ==
  IF SearchPoundFirst(t) # None THEN SearchPoundFirst(t)[1]
  ELSE IF SearchPoundLast(t) # None THEN SearchPoundLast(t)[1]
  ELSE <<>>

InitScan ==
  /\ InitStore /\ InitConc
  /\ page = NoPage
  /\ extracted = None
  /\ price_str \in PriceTexts
  /\ price_val = NoPriceCall

\* extract_property_data_from_card on a card without a price element: the
\* price is searched in card.text and given to extract_price_numeric
ScanPrice ==
  /\ price_val.calls = 0
  /\ price_val' = [calls |-> 1, text |-> TextPrice(price_str),
                   ret |-> extract_price_numeric(TextPrice(price_str))]
  /\ UNCHANGED <<storeVars, crawlVars, taskVars, concVars, page, extracted, price_str>>

Next == SaveNew \/ SaveAgain

Spec == Init /\ [][Next]_vars

NextImages == SaveImages \/ SaveAgain

SpecImages == Init /\ [][NextImages]_vars

NextCrawl == StartCrawl \/ VisitPage \/ FinishCrawl

SpecCrawl == Init /\ [][NextCrawl]_vars

NextOneCrawl == StartOneCrawl \/ VisitPage \/ FinishCrawl

\* one call of scrape_properties_from_detail_pages; the loop is one thread
\* of control, so an iteration that can run does run
SpecOneCrawl ==
  Init /\ [][NextOneCrawl]_vars /\ WF_vars(VisitPage) /\ WF_vars(FinishCrawl)

NextNoId == SaveNoId \/ SaveAgain

SpecNoId == Init /\ [][NextNoId]_vars

NextConc ==
  \E w \in Workers : TaskCall(w) \/ TxUpsert(w) \/ TxImages(w) \/ TxCommit(w)
                        \/ TxRollback(w)

SpecConc == Init /\ [][NextConc]_vars

NextSearch == SaveCard \/ SaveAgain

SpecSearch == Init /\ [][NextSearch]_vars

NextCard == ExtractCard

SpecCard == InitCard /\ [][NextCard]_vars

NextDetail == ScrapeDetail

SpecDetail == InitDetail /\ [][NextDetail]_vars

NextPhotos == ScrapeImages

SpecPhotos == InitImagePage /\ [][NextPhotos]_vars

NextScan == ScanPrice

SpecScan == InitScan /\ [][NextScan]_vars

NextTask ==
  \/ TaskStart \/ SearchGet \/ SearchPage \/ SearchQuit
  \/ DetailOpen \/ DetailVisit \/ DetailDone \/ DetailQuit

\* the task is one thread of control: a step that can be taken is taken
SpecTask == Init /\ [][NextTask]_vars /\ WF_vars(NextTask)

NextCalls == ScrapeDetailCalls

SpecCalls == InitDetail /\ [][NextCalls]_vars

NextPrice == ParsePrice \/ ReparsePrice

SpecPrice == InitPrice /\ [][NextPrice]_vars

TypeOK == now \in 0..MaxClock

\* ------------------------------------------------------- reading the state
ListingsAt(ls, url) == {l \in ls : l.listing_url = url}

\* the image rows owned by the listing(s) stored under url
ImageRowsAt(ls, imgs, url) ==
  {m \in imgs : \E l \in ListingsAt(ls, url) : m.property = l.id}

\* an image as the data model describes it: (url, order, isPrimary, title)
ImageView(m) ==
  [image_url |-> m.image_url, image_order |-> m.image_order,
   is_primary |-> m.is_primary, image_title |-> m.image_title]
ImageSetAt(ls, imgs, url) == {ImageView(m) : m \in ImageRowsAt(ls, imgs, url)}

\* a step that is a call of save_property_to_db_simple
SaveStep == last'.at # last.at
Committed(call) == call.outcome \in {"created", "updated"}
ArgUrl(call) == call.arg[1].listing_url

\* an image list as an extraction builds it: absolute URLs, none twice
WellFormedImages(s) ==
  /\ \A i \in 1..Len(s) : StartsWithHttp(s[i])
  /\ \A i, j \in 1..Len(s) : i # j => s[i] # s[j]

\* ------------------------------------------------------------------ C1
\* the call recorded in `call` passed a record as an extraction builds it
ExtractedArg(call) ==
  /\ ArgUrl(call) # NoUrl
  /\ WellFormedImages(PoppedImages(call.arg[1]))

ImageUrlsInOrder(ls, imgs, url) ==
  LET rows == ImageRowsAt(ls, imgs, url)
  IN [k \in 1..Cardinality(rows) |->
        (CHOOSE m \in rows :
           Cardinality({x \in rows : x.image_order < m.image_order}) = k - 1).image_url]

C2_ImagesMirrorLastUpsert ==
  (/\ Committed(last)
   /\ "image_urls" \in DOMAIN last.arg[1]
   /\ WellFormedImages(last.arg[1].image_urls))
  => /\ Cardinality(ImageRowsAt(listings, images, ArgUrl(last)))
          = Len(last.arg[1].image_urls)
     /\ ImageUrlsInOrder(listings, images, ArgUrl(last)) = last.arg[1].image_urls

\* ------------------------------------------------------------------ C3
\* C3: for every listing with n images the order values are exactly 0..n-1,
\* one per image, and when n > 0 exactly one image is primary and it is the
\* image of order 0.
C3_DenseOrderOnePrimary ==
  \A l \in listings :
    LET rows == {m \in images : m.property = l.id}
        n == Cardinality(rows)
    IN /\ {m.image_order : m \in rows} = 0..(n - 1)
       /\ n > 0 => /\ Cardinality({m \in rows : m.is_primary}) = 1
                   /\ \A m \in rows : m.is_primary <=> m.image_order = 0

\* ------------------------------------------------------------------ C4
\* C4: an upsert whose imageURLs is [A, B, A, C] succeeds and leaves the
\* listing with exactly A (order 0, primary), B (order 1), C (order 2).
C4_DuplicatesRemoved ==
  (/\ last.arg # None
   /\ "image_urls" \in DOMAIN last.arg[1]
   /\ last.arg[1].image_urls = <<ImgA, ImgB, ImgA, ImgC>>)
  => /\ Committed(last)
     /\ {[image_url |-> v.image_url, image_order |-> v.image_order,
          is_primary |-> v.is_primary] :
           v \in ImageSetAt(listings, images, ArgUrl(last))}
          = {[image_url |-> ImgA, image_order |-> 0, is_primary |-> TRUE],
             [image_url |-> ImgB, image_order |-> 1, is_primary |-> FALSE],
             [image_url |-> ImgC, image_order |-> 2, is_primary |-> FALSE]}

\* ------------------------------------------------------------------ C5
\* C5: a call of the persistence operation that fails leaves every listing
\* and every image exactly as it was before the call.
C5_AllOrNothing ==
  [][(SaveStep /\ last'.outcome = "failed") =>
       (listings' = listings /\ images' = images)]_vars

\* a failed call on a listing that exists, with an image list long enough
\* for the failure to come after the row update and an image insert
C5_Witness ==
  /\ last.outcome = "failed"
  /\ ListingsAt(listings, ArgUrl(last)) # {}
  /\ "image_urls" \in DOMAIN last.arg[1]
  /\ Len(last.arg[1].image_urls) >= 2

\* ------------------------------------------------------------------ C6
\* C6: for a listing whose page failed to load or whose upsert failed, the
\* outcome the crawl loop records is neither "created" (new_count) nor
\* "updated" (update_count).
C6_FailuresDistinguishable ==
  (visit.url # NoUrl /\ (~visit.loaded \/ visit.outcome = "failed"))
  => visit.counted \notin {"new", "updated"}

\* ------------------------------------------------------------------ C7
\* C7: a page visit whose load fails does not call the persistence
\* operation and changes no listing and no image.
C7_NoSaveOnLoadFailure ==
  [][(idx' = idx + 1 /\ ~visit'.loaded) =>
       /\ ~visit'.saved
       /\ last' = last
       /\ listings' = listings
       /\ images' = images]_vars

C7_Witness ==
  /\ idx > 0
  /\ visit.url # NoUrl
  /\ ~visit.loaded
  /\ listings # {}

\* ------------------------------------------------------------------ C8
\* C8: after every successful upsert the listing's scrapingStatus is
\* "completed".
C8_StatusCompleted ==
  Committed(last) =>
    \A l \in ListingsAt(listings, ArgUrl(last)) : l.scraping_status = "completed"

\* ------------------------------------------------------------------ C9
\* the fields the claim lists, by their column names
ClaimedFields ==
  {"external_id", "title", "price", "price_numeric", "property_type",
   "bedrooms", "bathrooms", "size", "description", "key_features", "date_added"}

\* C9 as stated: after an update of an existing listing every listed field
\* of the stored row equals the value in the new record.
C9_Original ==
  last.outcome = "updated" =>
    \A l \in ListingsAt(listings, ArgUrl(last)) :
      \A f \in ClaimedFields : l[f] = last.arg[1][f]

\* C9 amended: after an update every listed field other than priceNumeric
\* equals the value in the new record, and priceNumeric is absent when the
\* new value is absent and otherwise the new value rounded to a whole
\* number of hundredths.
C9_FullReplace ==
  last.outcome = "updated" =>
    \A l \in ListingsAt(listings, ArgUrl(last)) :
      /\ \A f \in ClaimedFields \ {"price_numeric"} : l[f] = last.arg[1][f]
      /\ LET new == last.arg[1].price_numeric
         IN IF new = None THEN l.price_numeric = None
            ELSE /\ l.price_numeric # None
                 /\ l.price_numeric[1] % 10 = 0
                 /\ l.price_numeric[1] - new[1] \in -5..5

\* an update that replaced non-empty values by empty ones
C9_Witness ==
  /\ last.outcome = "updated"
  /\ last.arg[1].title = ""
  /\ last.arg[1].bedrooms = None
  /\ \E l \in ListingsAt(listings, ArgUrl(last)) : l.scraped_at > l.last_updated

\* ----------------------------------------------------------------- C10
\* C10: the creation timestamp (column last_updated, auto_now_add) is set
\* when a listing is created and no later step changes it; the last-seen
\* timestamp (column scraped_at, auto_now) is set at creation, moves forward
\* on every successful upsert of the listing and changes in no other step.
C10_Timestamps ==
  [][/\ \A l \in listings :
          \E k \in listings' :
            /\ k.id = l.id
            /\ k.last_updated = l.last_updated
            /\ IF SaveStep /\ Committed(last') /\ ArgUrl(last') = l.listing_url
               THEN k.scraped_at > l.scraped_at
               ELSE k.scraped_at = l.scraped_at
     /\ \A k \in listings' :
          (\A l \in listings : l.id # k.id) =>
            /\ SaveStep /\ last'.outcome = "created"
            /\ k.last_updated = now'
            /\ k.scraped_at = now']_vars

\* an update, after which the two timestamps of the listing differ
C10_Witness ==
  /\ last.outcome = "updated"
  /\ \E l \in ListingsAt(listings, ArgUrl(last)) :
       l.scraped_at = now /\ l.last_updated < l.scraped_at

\* ----------------------------------------------------------------- C11
\* C11: an upsert of a record whose URL yields no identifier commits and
\* leaves a listing stored under that URL, whatever other listings without
\* an identifier are stored already; no stored listing is lost by it.
C11_NoIdBothStored ==
  [][(SaveStep /\ ExtractedArg(last') /\ ExternalIdOf(ArgUrl(last')) = "") =>
       /\ Committed(last')
       /\ ListingsAt(listings', ArgUrl(last')) # {}
       /\ \A l \in listings : ListingsAt(listings', l.listing_url) # {}]_vars

\* ----------------------------------------------------------------- C12
\* C12: when both workers have upserted a record for the URL and returned,
\* there is exactly one listing under the URL, and its fields and its
\* images in order are those of the record of the worker that committed last.
C12_LastCommittedWins ==
  ((\A w \in Workers : tx[w].pc = "returned") /\ Len(commits) = 2) =>
    LET r == tx[commits[2]].rec[1]
    IN /\ Cardinality(ListingsAt(listings, U1)) = 1
       /\ \A l \in ListingsAt(listings, U1) :
            \A f \in ClaimedFields : l[f] = ToColumn(f, r[f])
       /\ ImageUrlsInOrder(listings, images, U1) = r.image_urls

\* ----------------------------------------------------------------- C13
\* a listing row without the storage-assigned id
RowView(l) == [f \in DOMAIN l \ {"id"} |-> l[f]]

\* C13: an upsert of a record for URL u commits, and the listing and the
\* image set stored under u afterwards are the ones the same call produces
\* on a storage that holds nothing but what was stored under u.
C13_Independent ==
  [][(SaveStep /\ ExtractedArg(last')) =>
       LET u == ArgUrl(last')
           own == ListingsAt(listings, u)
           alone == SaveOutcome(own, ImageRowsAt(listings, images, u),
                                last'.arg[1], now')
       IN /\ Committed(last')
          /\ {RowView(l) : l \in ListingsAt(listings', u)}
               = {RowView(l) : l \in ListingsAt(alone.listings, u)}
          /\ ImageSetAt(listings', images', u)
               = ImageSetAt(alone.listings, alone.images, u)]_vars

\* ----------------------------------------------------------------- C14
\* C14: in every extracted record bedrooms and bathrooms are each either
\* absent or an integer in 0..20 (a page stating 45 yields an absent value).
C14_CountsInRange ==
  extracted # None =>
    /\ extracted[1].bedrooms = None \/ extracted[1].bedrooms[1] \in 0..20
    /\ extracted[1].bathrooms = None \/ extracted[1].bathrooms[1] \in 0..20

\* ----------------------------------------------------------------- C15
\* the text holds a currency symbol and a digit
CurrencyAndDigits(t) ==
  /\ \E i \in 1..Len(t) : t[i] \in CurrencyChars
  /\ \E i \in 1..Len(t) : IsDigitChar(t[i])

RECURSIVE PageText(_)
PageText(pg) == IF pg = <<>> THEN <<>> ELSE Head(pg).text \o PageText(Tail(pg))

\* C16: for a page whose text is a "Description" line, three lines longer
\* than 15 characters, a "Key features" line and what follows it, the
\* extracted description is the three lines joined by single spaces.
C16_DescriptionSection ==
  \A lines \in {ShortLines, LongLines} :
    (/\ extracted # None
     /\ PageText(page) = Section(lines)
     /\ \A i \in 1..3 : LineLen(lines[i]) > 15)
    => extracted[1].description = <<lines[1] \o lines[2] \o lines[3]>>

\* ----------------------------------------------------------------- C17
\* str.isupper() of a line, and ':' in a line, for the words used
UpperWords == {"ALLOCATED", "PARKING", "BEDROOMS"}
ColonWords == {"Parking:"}
IsUpperLine(line) == line # <<>> /\ \A i \in 1..Len(line) : line[i] \in UpperWords
HasColon(line) == \E i \in 1..Len(line) : line[i] \in ColonWords

\* C17: for the "Key features" list with one upper-case line, one line with
\* a colon and two feature lines, the extracted key features are exactly the
\* two feature lines; and no extracted key feature is an upper-case line or
\* holds a colon.
C17_GenuineFeaturesOnly ==
  extracted # None =>
    /\ page = FeaturesPage =>
         extracted[1].key_features = <<LiGardenPlain.text, LiSouth.text>>
    /\ \A i \in 1..Len(extracted[1].key_features) :
         \A k \in 1..Len(extracted[1].key_features[i]) :
           /\ ~IsUpperLine(extracted[1].key_features[i][k])
           /\ ~HasColon(extracted[1].key_features[i][k])

\* ----------------------------------------------------------------- C18
\* the bedroom counts in 0..20 that the visited elements state, in the
\* order of the visits
ValidBedrooms(pg) ==
  LET els == Visits(pg, bedroom_bathroom_selectors)
      c(i) == CountBefore(WordsOf(Strip(els[i].text)), StartsWithBedroom)
      hits == {i \in 1..Len(els) : c(i) # None /\ c(i)[1] \in 0..20}
  IN [k \in 1..Cardinality(hits) |->
        c(CHOOSE i \in hits : Cardinality({j \in hits : j < i}) = k - 1)]

\* C18: when an element of the bedroom chain states a valid count, the
\* extracted bedroom count is the first such count: no later selector or
\* element changes it.
C18_FirstSuccessWins ==
  (extracted # None /\ ValidBedrooms(page) # <<>>)
  => extracted[1].bedrooms = ValidBedrooms(page)[1]

\* ----------------------------------------------------------------- C19
\* the card has a label/value pair for bedrooms and every such pair reads 3
BedroomsPairIs3(card) ==
  /\ \E i \in 1..Len(card.pairs) : LabelHas(card.pairs[i].dt, StartsWithBedroom)
  /\ \A i \in 1..Len(card.pairs) :
       LabelHas(card.pairs[i].dt, StartsWithBedroom) => card.pairs[i].dd = << <<"3">> >>

C20_ZeroIsAValue ==
  (/\ extracted # None
   /\ \/ MetaCounts(page).bedrooms = Some(0)
      \/ /\ MetaCounts(page) = [bedrooms |-> None, bathrooms |-> None]
         /\ PairCounts(page.pairs, 1, MetaCounts(page)).bedrooms = Some(0))
  => extracted[1].bedrooms = Some(0)

\* ----------------------------------------------------------------- C29
\* C29: after a call of the persistence operation, whatever its outcome,
\* the dictionary the caller holds is the dictionary it passed, with the
\* same fields and the same image_urls.
C29_RecordUnchanged ==
  [][SaveStep => property_data' = last'.arg]_vars

\* ----------------------------------------------------------------- C22
\* C22: key_features lists the qualifying list items of the page in
\* document order, each list item once, also when the item is matched by
\* more than one key-feature selector: it never has more entries than the
\* page has list items, and it is the sequence of their qualifying texts.
QualifyingItems(pg) == FeatureTexts(find_elements(pg, "li"), 100, FeatureWords)
C22_EachItemOnce ==
  extracted # None =>
    \/ extracted[1].key_features = QualifyingItems(page)
    \/ /\ QualifyingItems(page) = <<>>
       /\ Len(extracted[1].key_features) <= Len(find_elements(page, "li"))

\* ----------------------------------------------------------------- C25
\* C25: the counters of the detail loop are accurate per record: an
\* iteration raises new_count by one exactly when it created a listing and
\* update_count by one exactly when it updated an existing listing, so
\* new_count + update_count is the number of listings persisted.
LoopStep == pc = "detail" /\ idx' = idx + 1
C25_CountsAccurate ==
  [][LoopStep =>
       /\ new_count' - new_count =
            (IF visit'.saved /\ visit'.outcome = "created" THEN 1 ELSE 0)
       /\ update_count' - update_count =
            (IF visit'.saved /\ visit'.outcome = "updated" THEN 1 ELSE 0)]_vars

\* ----------------------------------------------------------------- C30
\* C30: in scrape_rightmove_search_results, the save of a card whose
\* listing is not yet in storage commits a new listing, with the card's
\* images, and reports created = true.
CardStep == new_count' + update_count' # new_count + update_count
C30_NewCardIsCreated ==
  [][(CardStep /\ ListingsAt(listings, ArgUrl(last')) = {}) =>
       /\ last'.ret = "True"
       /\ ListingsAt(listings', ArgUrl(last')) # {}]_vars

\* ----------------------------------------------------------------- C23
\* C23: image_urls of an extracted record holds no URL twice and holds only
\* absolute URLs on the site's media host; an absolute URL on another host
\* is never included.
OnMediaHost(u) == Len(u) >= 2 /\ u[1] = "http" /\ u[2] \in {"s://media/a.jpg", "s://media/b.jpg", "s://media/c.jpg"}
C23_MediaHostOnly ==
  extracted # None =>
    /\ \A i, j \in 1..Len(extracted[1]) : i # j => extracted[1][i] # extracted[1][j]
    /\ \A i \in 1..Len(extracted[1]) : OnMediaHost(extracted[1][i])

\* ----------------------------------------------------------------- C21
\* C21: the price the full-text scan returns is the numerically largest
\* currency amount of the text, wherever in the text that amount stands: no
\* amount of the text is larger than the value returned.
\* a value with at most two fraction digits, in hundredths
HundredthsOf(v) ==
  v.int * 100 + (IF Len(v.frac) = 0 THEN 0
                 ELSE IF Len(v.frac) = 1 THEN 10 * DigitVal(v.frac[1])
                 ELSE NumOf(SubSeq(v.frac, 1, 2)))
AmountsIn(t) ==
  {extract_price_numeric(PoundFirstAt(t, i)) : i \in PoundFirstStarts(t)} \ {None}
C21_LargestAmount ==
  (price_val.calls = 1 /\ AmountsIn(price_str) # {}) =>
    /\ price_val.ret # None
    /\ \A a \in AmountsIn(price_str) :
         HundredthsOf(a[1]) <= HundredthsOf(price_val.ret[1])

\* ----------------------------------------------------------------- C27
\* C27: at most one browser session is open at any time, and every session
\* a crawl starts is eventually quit, whether the crawl completes, a page
\* wait times out or an exception is raised inside a loop.
C27_SessionsQuit ==
  /\ [](Cardinality(drivers) <= 1)
  /\ \A d \in {"search", "detail"} : (d \in drivers) ~> (d \notin drivers)

\* the task has returned after an exception, both sessions were started
\* and none is open
C27_Witness ==
  /\ task.pc = "return"
  /\ task.raised
  /\ task.opened = 2
  /\ drivers = {}

\* ----------------------------------------------------------------- C28
\* C28: a crawl started through scrape_properties_task(search_url,
\* max_pages) reads the cards of at most max_pages search-result pages.
C28_AtMostMaxPages == task.read <= task.max_pages

\* ----------------------------------------------------------------- C26
\* C26: within one crawl an iteration of the detail loop loads the next URL
\* of the collected list and persists nothing but that URL, so every URL is
\* loaded at most once, persisted at most once and in the order collected;
\* and every collected URL is eventually visited, whatever happened to the
\* URLs before it.
VisitStep == pc = "detail" /\ now' # now
C26_EachVisitedOnce ==
  /\ [][VisitStep =>
          /\ visit'.url = property_urls[idx + 1]
          /\ idx' = idx + 1
          /\ property_urls' = property_urls
          /\ (SaveStep => ArgUrl(last') = property_urls[idx + 1])]_vars
  /\ \A k \in 1..MaxUrls :
       (pc = "detail" /\ Len(property_urls) >= k) ~> (idx >= k)

\* the crawl is over, the page of the first URL did not load and the
\* second URL was persisted
C26_Witness ==
  /\ pc = "done"
  /\ Len(property_urls) = 2
  /\ idx = 2
  /\ ListingsAt(listings, property_urls[1]) = {}
  /\ ListingsAt(listings, property_urls[2]) # {}

\* ----------------------------------------------------------------- C24
\* C24: once the page has loaded, whichever of the later accessor calls
\* fail, the extraction returns a record; its listing_url is the URL
\* visited and a field whose calls failed has its default.
C24_NoAccessorFailureIsFatal ==
  extracted # None =>
    /\ extracted[1].ret # None
    /\ extracted[1].ret[1].listing_url = extracted[1].url
    /\ "bedrooms" \in extracted[1].failing =>
         (extracted[1].ret[1].bedrooms = None /\ extracted[1].ret[1].bathrooms = None)
    /\ "description" \in extracted[1].failing => extracted[1].ret[1].description = <<>>
    /\ "key_features" \in extracted[1].failing => extracted[1].ret[1].key_features = <<>>

====
